---------------------------- MODULE Spec2Model ----------------------------
(***************************************************************************)
(* Model of jira_pmo_status_report.py: the pagination loop of jira_search, *)
(* the field accessors, the open/closed predicate, determine_root,         *)
(* build_report and the dispatch of main.                                  *)
(*                                                                         *)
(* A Python str is a sequence of one-character strings, so that lower(),   *)
(* strip() and concatenation act on characters.  A JSON value is a tagged  *)
(* record: JNone, JStr(s), JNum(n), JDict(f), JList(l).  A dict is a       *)
(* function from member names (strings as above) to JSON values.           *)
(***************************************************************************)
EXTENDS Integers, Sequences, FiniteSets, TLC

VARIABLES
    pc,          \* position of the modelled call
    issues,      \* the list of issue records handed to the core
    hint_key,    \* ROOT_ISSUE_KEY after "or None": a str, or NoHint
    cfg,         \* the cfg dict of main
    tzname,      \* TIMEZONE
    day_shift,   \* calendar-day effect of astimezone in this environment
    root,        \* result of determine_root
    report,      \* result of build_report
    posted,      \* which message main handed to post_to_teams
    max_issues,  \* jira_search parameter
    batch_size,  \* jira_search parameter
    out,         \* jira_search: records collected so far
    start_at,    \* jira_search: next startAt
    asked,       \* jira_search: maxResults of the request in flight
    received,    \* history: the batches in the order the server returned them
    over_run,    \* history: some batch was longer than the maxResults asked
    arg_key,     \* field name argument of field / field_text
    ret          \* return value of the pure function under test

vars == <<pc, issues, hint_key, cfg, tzname, day_shift, root, report, posted,
          max_issues, batch_size, out, start_at, asked, received, over_run,
          arg_key, ret>>

-----------------------------------------------------------------------------
(* Characters and Python str methods *)

\* The one character U+2014 (em dash) of the title and bullet separators.
EmDash == "U+2014"

UpperCase == <<"A", "B", "C", "D", "E", "F", "G", "H", "I", "J", "K", "L", "M", "N", "O", "P", "Q", "R", "S", "T", "U", "V", "W", "X", "Y", "Z">>

LowerCase == <<"a", "b", "c", "d", "e", "f", "g", "h", "i", "j", "k", "l", "m", "n", "o", "p", "q", "r", "s", "t", "u", "v", "w", "x", "y", "z">>

\* Characters str.strip() removes when called without argument.
Whitespace == {" ", "\t", "\n", "\r"}

LowerChar(c) ==
    IF \E i \in 1..Len(UpperCase) : UpperCase[i] = c
    THEN LowerCase[CHOOSE i \in 1..Len(UpperCase) : UpperCase[i] = c]
    ELSE c

\* str.lower()
lower(s) == [i \in 1..Len(s) |-> LowerChar(s[i])]

SetMin(S) == CHOOSE x \in S : \A y \in S : x <= y

SetMax(S) == CHOOSE x \in S : \A y \in S : x >= y

\* str.lstrip(chars) / str.rstrip(chars) / str.strip(chars)
lstrip(s, chars) ==
    LET keep == {i \in 1..Len(s) : s[i] \notin chars}
    IN  IF keep = {} THEN <<>> ELSE SubSeq(s, SetMin(keep), Len(s))

rstrip(s, chars) ==
    LET keep == {i \in 1..Len(s) : s[i] \notin chars}
    IN  IF keep = {} THEN <<>> ELSE SubSeq(s, 1, SetMax(keep))

strip(s, chars) == rstrip(lstrip(s, chars), chars)

\* sep.join(parts)
RECURSIVE join(_, _)
join(sep, parts) ==
    IF parts = <<>> THEN <<>>
    ELSE IF Len(parts) = 1 THEN parts[1]
    ELSE parts[1] \o sep \o join(sep, Tail(parts))

\* str(n) for the small non-negative integers of the model
Digits == <<"0", "1", "2", "3", "4", "5", "6", "7", "8", "9">>

RECURSIVE IntStr(_)
IntStr(n) == IF n < 10 THEN <<Digits[n + 1]>> ELSE IntStr(n \div 10) \o <<Digits[(n % 10) + 1]>>

-----------------------------------------------------------------------------
(* JSON values as Python sees them after r.json() *)

JNone == [t |-> "none"]

JStr(s) == [t |-> "str", s |-> s]

JNum(n) == [t |-> "num", n |-> n]

JDict(f) == [t |-> "dict", d |-> f]

JList(l) == [t |-> "list", l |-> l]

\* The empty dict {}
NoMembers == [k \in {} |-> JNone]

\* dict.get(k): the member, or None
Get(v, k) == IF k \in DOMAIN v.d THEN v.d[k] ELSE JNone

\* Python truth value of a JSON value
Truthy(v) ==
    CASE v.t = "none" -> FALSE
      [] v.t = "str"  -> v.s # <<>>
      [] v.t = "num"  -> v.n # 0
      [] v.t = "dict" -> DOMAIN v.d # {}
      [] v.t = "list" -> v.l # <<>>

\* a or b
Or(a, b) == IF Truthy(a) THEN a ELSE b

\* str(v) of a scalar
PyStr(v) ==
    CASE v.t = "none" -> <<"N", "o", "n", "e">>
      [] v.t = "str"  -> v.s
      [] v.t = "num"  -> IntStr(v.n)

\* An issue record: the JSON object of one issue.  Every issue object the
\* search returns carries members besides "fields" (id, self, key), so a
\* record is a non-empty dict; its "key" and "fields" members may be absent.
Issue(key, fields) ==
    JDict((<<"i", "d">> :> JStr(<<"1", "0", "0", "0", "1">>))
          @@ (IF key = JNone THEN NoMembers ELSE <<"k", "e", "y">> :> key)
          @@ (IF fields = JNone THEN NoMembers ELSE <<"f", "i", "e", "l", "d", "s">> :> fields))

-----------------------------------------------------------------------------
(* Field accessors and record classifier *)

\* issue.get("fields", {}) or {}
FieldsOf(issue) == Or(Get(issue, <<"f", "i", "e", "l", "d", "s">>), JDict(NoMembers))

\* f[key] if present, else f[key.lower()] if present, else None (lines 79-81)
Lookup(f, key) ==
    IF key \in DOMAIN f.d THEN Get(f, key)
    ELSE IF lower(key) \in DOMAIN f.d THEN Get(f, lower(key))
    ELSE JNone

field(issue, key) == Lookup(FieldsOf(issue), key)

\* The part one element of a list contributes (lines 91-94)
ElementPart(it) ==
    IF it.t = "dict"
    THEN Or(Or(Or(Or(Get(it, <<"n", "a", "m", "e">>), Get(it, <<"v", "a", "l", "u", "e">>)), Get(it, <<"d", "i", "s", "p", "l", "a", "y", "N", "a", "m", "e">>)), Get(it, <<"k", "e", "y">>)), JStr(<<>>))
    ELSE JStr(PyStr(it))

\* [p for p in parts if p]
RECURSIVE TruthyOnly(_)
TruthyOnly(parts) ==
    IF parts = <<>> THEN <<>>
    ELSE (IF Truthy(Head(parts)) THEN <<Head(parts)>> ELSE <<>>) \o TruthyOnly(Tail(parts))

PartsOf(l) == [i \in 1..Len(l) |-> ElementPart(l[i])]

\* ", ".join(kept): a TypeError when a part is not a str
JoinParts(kept) ==
    IF \E i \in 1..Len(kept) : kept[i].t # "str"
    THEN [raised |-> TRUE, exc |-> "TypeError"]
    ELSE [raised |-> FALSE, val |-> JStr(join(<<",", " ">>, [i \in 1..Len(kept) |-> kept[i].s]))]

\* Lines 85-96 on the value v that field returned: [raised |-> FALSE,
\* val |-> the value returned] or [raised |-> TRUE, exc |-> the exception].
TextOfValue(v) ==
    CASE v.t = "none" -> [raised |-> FALSE, val |-> JStr(<<>>)]
      [] v.t = "dict" ->
            [raised |-> FALSE,
             val |-> Or(Or(Or(Or(Get(v, <<"d", "i", "s", "p", "l", "a", "y", "N", "a", "m", "e">>), Get(v, <<"n", "a", "m", "e">>)), Get(v, <<"v", "a", "l", "u", "e">>)), Get(v, <<"i", "d">>)), JStr(<<>>))]
      [] v.t = "list" -> JoinParts(TruthyOnly(PartsOf(v.l)))
      [] OTHER -> [raised |-> FALSE, val |-> JStr(PyStr(v))]

field_text(issue, key) == TextOfValue(field(issue, key))

\* The text an f-string or a truth test sees of a field_text result that did
\* not raise: format(v) of a str or a number.
Text(r) == PyStr(r.val)

\* (it.get("name") or "").strip(), for a name that is a str or absent
issue_type(issue) ==
    LET it == Or(Get(FieldsOf(issue), <<"i", "s", "s", "u", "e", "t", "y", "p", "e">>), JDict(NoMembers))
    IN  strip(Or(Get(it, <<"n", "a", "m", "e">>), JStr(<<>>)).s, Whitespace)

\* st.get("statusCategory", {}) : the member if present, else {}
StatusCategory(st) == IF <<"s", "t", "a", "t", "u", "s", "C", "a", "t", "e", "g", "o", "r", "y">> \in DOMAIN st.d THEN st.d[<<"s", "t", "a", "t", "u", "s", "C", "a", "t", "e", "g", "o", "r", "y">>] ELSE JDict(NoMembers)

issue_status_name(issue) ==
    LET st == Or(Get(FieldsOf(issue), <<"s", "t", "a", "t", "u", "s">>), JDict(NoMembers))
    IN  strip(Or(Or(Get(st, <<"n", "a", "m", "e">>), Get(StatusCategory(st), <<"n", "a", "m", "e">>)), JStr(<<>>)).s, Whitespace)

issue_key(issue) == Or(Get(issue, <<"k", "e", "y">>), JStr(<<>>)).s

parent_key(issue) ==
    LET p == Get(FieldsOf(issue), <<"p", "a", "r", "e", "n", "t">>)
    IN  IF p.t = "dict" THEN Or(Get(p, <<"k", "e", "y">>), JStr(<<>>)).s ELSE <<>>

\* The statuses that close a record (line 126)
TerminalStatuses == {<<"d", "o", "n", "e">>, <<"c", "l", "o", "s", "e", "d">>, <<"r", "e", "s", "o", "l", "v", "e", "d">>}

\* Faulty variant: the status is compared as written, without lower().
is_open_as_written(issue) == issue_status_name(issue) \notin TerminalStatuses

is_open(issue) == lower(issue_status_name(issue)) \notin TerminalStatuses

\* by_key = {issue_key(i): i for i in issues}: a later record replaces an
\* earlier one with the same key, so by_key[k] is the last record keyed k.
by_key(list, k) == list[SetMax({i \in 1..Len(list) : issue_key(list[i]) = k})]

InByKey(list, k) == \E i \in 1..Len(list) : issue_key(list[i]) = k

\* Faulty variant: the structural search runs before the hint is looked at.
determine_root_parent_first(list, hint) ==
    IF \E i \in 1..Len(list) : parent_key(list[i]) = <<>>
    THEN list[SetMin({i \in 1..Len(list) : parent_key(list[i]) = <<>>})]
    ELSE IF Truthy(hint) /\ InByKey(list, hint.s)
         THEN by_key(list, hint.s)
         ELSE IF list # <<>> THEN list[1] ELSE JNone

\* Faulty variant: no fallback to the first record when every record has a parent.
determine_root_no_fallback(list, hint) ==
    IF Truthy(hint) /\ InByKey(list, hint.s)
    THEN by_key(list, hint.s)
    ELSE IF \E i \in 1..Len(list) : parent_key(list[i]) = <<>>
         THEN list[SetMin({i \in 1..Len(list) : parent_key(list[i]) = <<>>})]
         ELSE JNone

\* hint is JNone or a JStr; the result is a record of the list, or JNone.
determine_root(list, hint) ==
    IF Truthy(hint) /\ InByKey(list, hint.s)
    THEN by_key(list, hint.s)
    ELSE IF \E i \in 1..Len(list) : parent_key(list[i]) = <<>>
         THEN list[SetMin({i \in 1..Len(list) : parent_key(list[i]) = <<>>})]
         ELSE IF list # <<>> THEN list[1] ELSE JNone

-----------------------------------------------------------------------------
(* Values of the variables a specification does not use *)

Unused == "unused"

\* Nothing posted yet; no report built yet
NotPosted == [kind |-> "nothing"]

NoReport == [raised |-> FALSE, built |-> FALSE]

IdleSearch ==
    /\ max_issues = 0 /\ batch_size = 0 /\ out = <<>> /\ start_at = 0
    /\ asked = 0 /\ received = <<>> /\ over_run = FALSE

IdleMain ==
    /\ hint_key = JNone /\ cfg = Unused /\ tzname = <<>> /\ day_shift = 0
    /\ root = JNone /\ report = NoReport /\ posted = NotPosted

IdlePure == arg_key = <<>> /\ ret = Unused

searchVars == <<max_issues, batch_size, out, start_at, asked, received, over_run>>

mainVars == <<hint_key, cfg, tzname, day_shift, root, report, posted>>

-----------------------------------------------------------------------------
(* is_open and issue_status_name on one record *)

StatusWords == {<<"d", "o", "n", "e">>, <<"D", "o", "n", "e">>, <<"D", "O", "N", "E">>, <<"c", "l", "o", "s", "e", "d">>, <<"C", "l", "o", "s", "e", "d">>, <<"r", "e", "s", "o", "l", "v", "e", "d">>, <<"R", "e", "s", "o", "l", "v", "e", "d">>, <<"R", "E", "S", "O", "L", "V", "E", "D">>, <<>>, <<"O", "p", "e", "n">>, <<"T", "o", " ", "D", "o">>, <<"I", "n", " ", "P", "r", "o", "g", "r", "e", "s", "s">>, <<"D", "o", "n", "e", "!">>, <<"u", "n", "d", "o", "n", "e">>, <<"n", "o", "t", " ", "d", "o", "n", "e">>, <<"r", "e", "s", "o", "l", "v", "e">>, <<"c", "l", "o", "s", "e", " ", "d">>}

Pads == {<<>>, <<" ">>, <<"\t">>}

StatusNames == {p \o w \o q : p \in Pads, w \in StatusWords, q \in Pads}

CategoryNames == {<<"D", "o", "n", "e">>, <<"T", "o", " ", "D", "o">>, <<" ", "d", "o", "n", "e", " ">>, <<>>}

\* The shapes of fields.status: absent, null, {}, with and without a name,
\* with and without a statusCategory.
StatusValues ==
    {JNone, JDict(NoMembers)}
    \cup {JDict(<<"n", "a", "m", "e">> :> JStr(n)) : n \in StatusNames}
    \cup {JDict((<<"n", "a", "m", "e">> :> JStr(n)) @@ (<<"s", "t", "a", "t", "u", "s", "C", "a", "t", "e", "g", "o", "r", "y">> :> JDict(<<"n", "a", "m", "e">> :> JStr(c)))) : n \in StatusWords, c \in CategoryNames}
    \cup {JDict(<<"s", "t", "a", "t", "u", "s", "C", "a", "t", "e", "g", "o", "r", "y">> :> JDict(<<"n", "a", "m", "e">> :> JStr(c))) : c \in CategoryNames}
    \cup {JDict((<<"n", "a", "m", "e">> :> JNone) @@ (<<"s", "t", "a", "t", "u", "s", "C", "a", "t", "e", "g", "o", "r", "y">> :> JDict(<<"n", "a", "m", "e">> :> JStr(c)))) : c \in CategoryNames}
    \cup {JDict((<<"n", "a", "m", "e">> :> JStr(n)) @@ (<<"s", "t", "a", "t", "u", "s", "C", "a", "t", "e", "g", "o", "r", "y">> :> JDict(NoMembers))) : n \in {<<>>, <<"C", "l", "o", "s", "e", "d">>}}

OpenInit ==
    /\ pc = "call"
    /\ \E st \in StatusValues :
          issues = <<Issue(JStr(<<"P", "M", "O", "-", "1">>), JDict(IF st = JNone THEN NoMembers ELSE <<"s", "t", "a", "t", "u", "s">> :> st))>>
    /\ IdleMain /\ IdleSearch /\ IdlePure

IsOpen ==
    /\ pc = "call"
    /\ ret' = [status_name |-> issue_status_name(issues[1]), open |-> is_open(issues[1])]
    /\ pc' = "returned"
    /\ UNCHANGED <<issues, arg_key>> /\ UNCHANGED mainVars /\ UNCHANGED searchVars

OpenNext == IsOpen

SpecOpen == OpenInit /\ [][OpenNext]_vars

\* C1: is_open(r) is false if and only if issue_status_name(r), lower-cased,
\* is exactly "done", "closed" or "resolved"; every other status, the empty
\* one included, is open.
C1_OpenIffNotTerminal ==
    pc = "returned" =>
        /\ (ret.open = FALSE) <=> (\/ lower(ret.status_name) = <<"d", "o", "n", "e">>
                                   \/ lower(ret.status_name) = <<"c", "l", "o", "s", "e", "d">>
                                   \/ lower(ret.status_name) = <<"r", "e", "s", "o", "l", "v", "e", "d">>)
        /\ (ret.status_name = <<>> => ret.open = TRUE)

\* A closed record whose status is written in capitals and padded, and an
\* open record with the empty status, have both been classified.
C1_Witness ==
    /\ pc = "returned"
    /\ ret.open = FALSE
    /\ ret.status_name = <<"R", "E", "S", "O", "L", "V", "E", "D">>
    /\ Get(Get(FieldsOf(issues[1]), <<"s", "t", "a", "t", "u", "s">>), <<"n", "a", "m", "e">>) = JStr(<<" ", "R", "E", "S", "O", "L", "V", "E", "D", "\t">>)

-----------------------------------------------------------------------------
(* fmt_date *)

\* The timestamps of the model that datetime.fromisoformat accepts after the
\* "+0000" and "Z" rewriting, each with the date strftime("%Y-%m-%d") gives
\* when no zone conversion moves it, the day before and the day after.
ParsedDates ==
    (<<"2", "0", "2", "4", "-", "0", "5", "-", "0", "1">> :> <<<<"2", "0", "2", "4", "-", "0", "4", "-", "3", "0">>, <<"2", "0", "2", "4", "-", "0", "5", "-", "0", "1">>, <<"2", "0", "2", "4", "-", "0", "5", "-", "0", "2">>>>)
    @@ (<<"2", "0", "2", "4", "-", "0", "5", "-", "0", "1", "T", "2", "3", ":", "3", "0", ":", "0", "0", "Z">> :> <<<<"2", "0", "2", "4", "-", "0", "4", "-", "3", "0">>, <<"2", "0", "2", "4", "-", "0", "5", "-", "0", "1">>, <<"2", "0", "2", "4", "-", "0", "5", "-", "0", "2">>>>)
    @@ (<<"2", "0", "2", "4", "-", "1", "2", "-", "3", "1", "T", "0", "0", ":", "1", "0", ":", "0", "0", ".", "0", "0", "0", "+", "0", "0", "0", "0">> :> <<<<"2", "0", "2", "4", "-", "1", "2", "-", "3", "0">>, <<"2", "0", "2", "4", "-", "1", "2", "-", "3", "1">>, <<"2", "0", "2", "5", "-", "0", "1", "-", "0", "1">>>>)

\* A value that is a str the parser rejects comes back as it is (line 39),
\* the empty str as "".  With a zone name given, astimezone may move the
\* calendar day by shift (-1, 0 or 1), as the zone and the host decide.
fmt_date(v, tz, shift) ==
    IF v = <<>> THEN <<>>
    ELSE IF v \in DOMAIN ParsedDates
         THEN ParsedDates[v][2 + (IF tz # <<>> THEN shift ELSE 0)]
         ELSE v

-----------------------------------------------------------------------------
(* build_report *)

\* What a raising field_text leaves in the line being built: build_report
\* raises as soon as one of its field_text calls does, so a report none of
\* whose lines holds this mark is a report that was returned.
RaisedMark == "TypeError"

\* A field_text result as build_report uses it: in an f-string and in a truth
\* test, a returned value counts by its text.
AsText(r) == IF r.raised THEN <<RaisedMark>> ELSE Text(r)

FT(it, key) == AsText(field_text(it, key))

HasRaised(line) == \E i \in 1..Len(line) : line[i] = RaisedMark

\* [it for it in seq if is_open(it)]
RECURSIVE OpenOnly(_)
OpenOnly(seq) ==
    IF seq = <<>> THEN <<>>
    ELSE (IF is_open(Head(seq)) THEN <<Head(seq)>> ELSE <<>>) \o OpenOnly(Tail(seq))

\* by_type.get(type_name, []): the records whose issue_type is type_name
\* itself, in input order (lines 143-145).
RECURSIVE by_type(_, _)
by_type(list, type_name) ==
    IF list = <<>> THEN <<>>
    ELSE (IF issue_type(Head(list)) = type_name THEN <<Head(list)>> ELSE <<>>) \o by_type(Tail(list), type_name)

\* [b for b in bits if b]
RECURSIVE NonEmptyOnly(_)
NonEmptyOnly(bits) ==
    IF bits = <<>> THEN <<>>
    ELSE (IF Head(bits) # <<>> THEN <<Head(bits)>> ELSE <<>>) \o NonEmptyOnly(Tail(bits))

bullet_or_none(items) == IF items # <<>> THEN items ELSE <<<<"N", "o", "n", "e">>>>

format_item(it, extra_bits) ==
    <<"-", " ">> \o join(<<" ", "|", " ">>, <<issue_key(it) \o <<" ", EmDash, " ">> \o FT(it, <<"s", "u", "m", "m", "a", "r", "y">>)>> \o NonEmptyOnly(extra_bits))

\* root_type.lower() == cfg["INITIATIVE_TYPE_NAME"].lower()
IsInitiativeRoot(rt, c) == lower(issue_type(rt)) = lower(c.INITIATIVE_TYPE_NAME)

title_of(rt) == strip(issue_key(rt) \o <<" ", EmDash, " ">> \o FT(rt, <<"s", "u", "m", "m", "a", "r", "y">>), {" ", EmDash})

\* if wu: the bullet of project p (lines 165-166)
ProjectBullet(p, wu) ==
    IF wu # <<>>
    THEN <<<<"-", " ", "*", "*">> \o issue_key(p) \o <<" ", EmDash, " ">> \o FT(p, <<"s", "u", "m", "m", "a", "r", "y">>) \o <<"*", "*", ":", " ">> \o wu>>
    ELSE <<>>

RECURSIVE WeeklyBullets(_, _)
WeeklyBullets(projects, c) ==
    IF projects = <<>> THEN <<>>
    ELSE ProjectBullet(Head(projects), FT(Head(projects), c.WEEKLY_UPDATE_FIELD)) \o WeeklyBullets(Tail(projects), c)

\* if not weekly_lines: weekly_lines = ["- None"]
NoneIfNoBullet(found) == IF found = <<>> THEN <<<<"-", " ", "N", "o", "n", "e">>>> ELSE found

\* [f"- {wu}"] if wu else ["- None"]
OwnUpdate(wu) == IF wu # <<>> THEN <<<<"-", " ">> \o wu>> ELSE <<<<"-", " ", "N", "o", "n", "e">>>>

\* Faulty variant: closed projects are reported too.
weekly_lines_with_closed(list, rt, c) ==
    IF IsInitiativeRoot(rt, c)
    THEN NoneIfNoBullet(WeeklyBullets(by_type(list, c.PROJECT_TYPE_NAME), c))
    ELSE OwnUpdate(FT(rt, c.WEEKLY_UPDATE_FIELD))

weekly_lines(list, rt, c) ==
    IF IsInitiativeRoot(rt, c)
    THEN NoneIfNoBullet(WeeklyBullets(OpenOnly(by_type(list, c.PROJECT_TYPE_NAME)), c))
    ELSE OwnUpdate(FT(rt, c.WEEKLY_UPDATE_FIELD))

\* x or '-'
OrDash(x) == IF x # <<>> THEN x ELSE <<"-">>

MilestoneLine(m, c, tz, shift) ==
    <<"-", " ">> \o issue_key(m) \o <<" ", EmDash, " ">> \o FT(m, <<"s", "u", "m", "m", "a", "r", "y">>)
       \o <<" ", "|", " ", "T", "a", "r", "g", "e", "t", " ", "e", "n", "d", ":", " ">> \o OrDash(fmt_date(FT(m, c.MILESTONE_TARGET_END_FIELD), tz, shift))
       \o <<" ", "|", " ", "R", "A", "G", ":", " ">> \o OrDash(FT(m, c.MILESTONE_RAG_FIELD))

MilestoneRows(milestones, c, tz, shift) ==
    [i \in 1..Len(milestones) |-> MilestoneLine(milestones[i], c, tz, shift)]

\* Faulty variant: closed milestones are listed too.
milestone_lines_with_closed(list, c, tz, shift) ==
    MilestoneRows(by_type(list, c.MILESTONE_TYPE_NAME), c, tz, shift)

milestone_lines(list, c, tz, shift) ==
    MilestoneRows(OpenOnly(by_type(list, c.MILESTONE_TYPE_NAME)), c, tz, shift)

\* if val: extra.append(f"{label}: {val}")
Labelled(label, val) == IF val # <<>> THEN <<label \o <<":", " ">> \o val>> ELSE <<>>

\* The bits one extra column adds to a row (lines 194-205): at most one.
ExtraOf(it, col, c) ==
    CASE col = <<"_", "_", "s", "t", "a", "t", "u", "s">>     -> <<<<"S", "t", "a", "t", "u", "s", ":", " ">> \o issue_status_name(it)>>
      [] col = <<"_", "_", "a", "s", "s", "i", "g", "n", "e", "e">>   -> Labelled(<<"A", "s", "s", "i", "g", "n", "e", "e">>, FT(it, <<"a", "s", "s", "i", "g", "n", "e", "e">>))
      [] col = <<"_", "_", "r", "i", "s", "k", "_", "s", "c", "o", "r", "e">> -> Labelled(<<"A", "r", "i", "s", "t", "o", "c", "r", "a", "t", " ", "r", "i", "s", "k", " ", "s", "c", "o", "r", "e">>, FT(it, c.RISK_SCORE_FIELD))
      [] OTHER                 -> Labelled(col, FT(it, col))

RECURSIVE ExtrasOf(_, _, _)
ExtrasOf(it, cols, c) ==
    IF cols = <<>> THEN <<>>
    ELSE ExtraOf(it, Head(cols), c) \o ExtrasOf(it, Tail(cols), c)

SectionRows(items, extra_cols, c) ==
    [i \in 1..Len(items) |-> format_item(items[i], ExtrasOf(items[i], extra_cols, c))]

\* rows or ["None"]
RowsOrNone(rows) == IF rows # <<>> THEN rows ELSE <<<<"N", "o", "n", "e">>>>

\* The lines one call of section appends (lines 188-209).
section(list, header, type_name, extra_cols, c) ==
    <<header \o <<":">>>> \o RowsOrNone(SectionRows(OpenOnly(by_type(list, type_name)), extra_cols, c)) \o <<<<>>>>

RiskCols == <<<<"_", "_", "s", "t", "a", "t", "u", "s">>, <<"_", "_", "r", "i", "s", "k", "_", "s", "c", "o", "r", "e">>, <<"_", "_", "a", "s", "s", "i", "g", "n", "e", "e">>>>

PlainCols == <<<<"_", "_", "s", "t", "a", "t", "u", "s">>, <<"_", "_", "a", "s", "s", "i", "g", "n", "e", "e">>>>

\* The arguments of the five section calls of the initiative branch
\* (lines 212-216): header, cfg key of the type name, extra columns.
InitiativeCalls ==
    << <<<<"R", "i", "s", "k", "s">>, "INITIATIVE_RISK_TYPE_NAME", RiskCols>>,
       <<<<"A", "s", "s", "u", "m", "p", "t", "i", "o", "n", "s">>, "ASSUMPTION_TYPE_NAME", PlainCols>>,
       <<<<"I", "s", "s", "u", "e", "s">>, "ISSUE_TYPE_NAME", PlainCols>>,
       <<<<"D", "e", "c", "i", "s", "i", "o", "n", "s">>, "DECISION_TYPE_NAME", PlainCols>>,
       <<<<"C", "h", "a", "n", "g", "e", " ", "r", "e", "q", "u", "e", "s", "t", "s">>, "CHANGE_REQ_TYPE_NAME", PlainCols>> >>

\* The arguments of the five section calls of the project branch (lines 219-223)
ProjectCalls ==
    << <<<<"R", "i", "s", "k", "s">>, "INITIATIVE_RISK_TYPE_NAME", RiskCols>>,
       <<<<"A", "s", "s", "u", "m", "p", "t", "i", "o", "n", "s">>, "ASSUMPTION_TYPE_NAME", PlainCols>>,
       <<<<"I", "s", "s", "u", "e", "s">>, "ISSUE_TYPE_NAME", PlainCols>>,
       <<<<"D", "e", "c", "i", "s", "i", "o", "n", "s">>, "DECISION_TYPE_NAME", PlainCols>>,
       <<<<"C", "h", "a", "n", "g", "e", " ", "r", "e", "q", "u", "e", "s", "t", "s">>, "CHANGE_REQ_TYPE_NAME", PlainCols>> >>

\* The section calls of one branch, in the order written
RECURSIVE Sections(_, _, _)
Sections(list, calls, c) ==
    IF calls = <<>> THEN <<>>
    ELSE section(list, Head(calls)[1], c[Head(calls)[2]], Head(calls)[3], c) \o Sections(list, Tail(calls), c)

InitiativeSections(list, rt, c) == Sections(list, InitiativeCalls, c)

\* [it for it in list if parent_key(it) == key]
RECURSIVE ChildrenOf(_, _)
ChildrenOf(list, key) ==
    IF list = <<>> THEN <<>>
    ELSE (IF parent_key(Head(list)) = key THEN <<Head(list)>> ELSE <<>>) \o ChildrenOf(Tail(list), key)

\* Faulty variant: the project branch keeps only the children of the root.
ProjectSections_children_only(list, rt, c) == Sections(ChildrenOf(list, issue_key(rt)), ProjectCalls, c)

\* "hierarchy parent filtering can be added if needed": not done, the pool
\* is the whole list whatever the root (line 218).
ProjectSections(list, rt, c) == Sections(list, ProjectCalls, c)

\* The lines the RAID sections append (lines 211-223)
raid_lines(list, rt, c) ==
    IF IsInitiativeRoot(rt, c) THEN InitiativeSections(list, rt, c) ELSE ProjectSections(list, rt, c)

report_lines(list, rt, c, tz, shift) ==
    <<<<"W", "e", "e", "k", "l", "y", " ", "u", "p", "d", "a", "t", "e", "s", ":">>>> \o weekly_lines(list, rt, c) \o <<<<>>>>
    \o <<<<"U", "p", "c", "o", "m", "i", "n", "g", " ", "M", "i", "l", "e", "s", "t", "o", "n", "e", "s", ":">>>> \o bullet_or_none(milestone_lines(list, c, tz, shift)) \o <<<<>>>>
    \o raid_lines(list, rt, c)

\* text (line 225)
TextOf(title, lines) == <<"#", " ">> \o title \o <<"\n", "\n">> \o rstrip(join(<<"\n">>, lines), Whitespace) \o <<"\n">>

\* (title, text), or the exception of the first field_text call that raised
Returned(title, lines) ==
    IF HasRaised(title) \/ \E i \in 1..Len(lines) : HasRaised(lines[i])
    THEN [raised |-> TRUE, exc |-> "TypeError"]
    ELSE [raised |-> FALSE, title |-> title, text |-> TextOf(title, lines)]

build_report(list, rt, c, tz, shift) == Returned(title_of(rt), report_lines(list, rt, c, tz, shift))

-----------------------------------------------------------------------------
(* main, from the fetched list to the posted message *)

\* The cfg dict with every environment variable at its default (lines 257-270)
DefaultCfg ==
    [WEEKLY_UPDATE_FIELD |-> <<"c", "u", "s", "t", "o", "m", "f", "i", "e", "l", "d", "_", "w", "e", "e", "k", "l", "y", "_", "u", "p", "d", "a", "t", "e">>,
     MILESTONE_TYPE_NAME |-> <<"M", "i", "l", "e", "s", "t", "o", "n", "e">>,
     MILESTONE_TARGET_END_FIELD |-> <<"d", "u", "e", "d", "a", "t", "e">>,
     MILESTONE_RAG_FIELD |-> <<"c", "u", "s", "t", "o", "m", "f", "i", "e", "l", "d", "_", "r", "a", "g">>,
     INITIATIVE_RISK_TYPE_NAME |-> <<"I", "n", "i", "t", "i", "a", "t", "i", "v", "e", "R", "i", "s", "k">>,
     ASSUMPTION_TYPE_NAME |-> <<"A", "s", "s", "u", "m", "p", "t", "i", "o", "n">>,
     ISSUE_TYPE_NAME |-> <<"I", "s", "s", "u", "e">>,
     DECISION_TYPE_NAME |-> <<"D", "e", "c", "i", "s", "i", "o", "n">>,
     CHANGE_REQ_TYPE_NAME |-> <<"C", "h", "a", "n", "g", "e", " ", "r", "e", "q">>,
     PROJECT_TYPE_NAME |-> <<"P", "r", "o", "j", "e", "c", "t">>,
     INITIATIVE_TYPE_NAME |-> <<"P", "M", "O", " ", "I", "n", "i", "t", "i", "a", "t", "i", "v", "e">>,
     RISK_SCORE_FIELD |-> <<"c", "u", "s", "t", "o", "m", "f", "i", "e", "l", "d", "_", "r", "i", "s", "k", "s", "c", "o", "r", "e">>]

\* TITLE at its default (line 247)
title_override == <<"W", "e", "e", "k", "l", "y", " ", "P", "M", "O", " ", "J", "i", "r", "a", " ", "S", "t", "a", "t", "u", "s", " ", "R", "e", "p", "o", "r", "t">>

\* post_title (line 305)
post_title(title) ==
    IF strip(title_override, Whitespace) # <<>> THEN title_override \o <<" ", EmDash, " ">> \o title ELSE title

\* if not issues: post the empty-result notice and return (lines 291-294)
EmptyNotice ==
    /\ pc = "fetched"
    /\ issues = <<>>
    /\ posted' = [kind |-> "empty-notice", title |-> title_override]
    /\ pc' = "done"
    /\ UNCHANGED <<issues, hint_key, cfg, tzname, day_shift, root, report, arg_key, ret>>
    /\ UNCHANGED searchVars

\* root = determine_root(issues, root_hint) (line 296)
DetermineRoot ==
    /\ pc = "fetched"
    /\ issues # <<>>
    /\ root' = determine_root(issues, hint_key)
    /\ pc' = "rooted"
    /\ UNCHANGED <<issues, hint_key, cfg, tzname, day_shift, report, posted, arg_key, ret>>
    /\ UNCHANGED searchVars

\* if not root: the no-root fallback; else build_report and post (lines 297-307).
\* An exception of build_report leaves main before anything is posted.
\* post_to_teams(webhook, post_title, text), unless build_report raised
PostReport(rep) ==
    IF rep.raised
    THEN posted' = posted /\ pc' = "raised"
    ELSE /\ posted' = [kind |-> "report", title |-> post_title(rep.title), text |-> rep.text]
         /\ pc' = "done"

ReportOrFallback ==
    /\ pc = "rooted"
    /\ IF ~Truthy(root)
       THEN /\ posted' = [kind |-> "no-root", title |-> title_override]
            /\ report' = report
            /\ pc' = "done"
       ELSE /\ report' = build_report(issues, root, cfg, tzname, day_shift)
            /\ PostReport(report')
    /\ UNCHANGED <<issues, hint_key, cfg, tzname, day_shift, root, arg_key, ret>>
    /\ UNCHANGED searchVars

Next == EmptyNotice \/ DetermineRoot \/ ReportOrFallback

-----------------------------------------------------------------------------
(* determine_root: records that differ in key and parent reference *)

MaxRootIssues == 3

RootKeys == {<<"P", "M", "O", "-", "1">>, <<"P", "M", "O", "-", "2">>, <<"P", "M", "O", "-", "3">>}

\* fields.parent: absent, a parent with a key, a parent object without key
ParentValues == {JNone, JDict(<<"k", "e", "y">> :> JStr(<<"P", "M", "O", "-", "1">>)), JDict(NoMembers)}

RootRecord(k, p) == Issue(k, JDict(IF p = JNone THEN NoMembers ELSE <<"p", "a", "r", "e", "n", "t">> :> p))

RootPool ==
    {RootRecord(JStr(k), p) : k \in RootKeys, p \in ParentValues}
    \cup {RootRecord(JNone, JDict(<<"k", "e", "y">> :> JStr(<<"P", "M", "O", "-", "2">>)))}

\* ROOT_ISSUE_KEY: unset, the key of a record, a key no record has
RootHints == {JNone, JStr(<<"P", "M", "O", "-", "2">>), JStr(<<"P", "M", "O", "-", "3">>), JStr(<<"P", "M", "O", "-", "9">>)}

ListsOver(pool, n) == UNION {[1..m -> pool] : m \in 0..n}

RootInit ==
    /\ pc = "fetched"
    /\ issues \in ListsOver(RootPool, MaxRootIssues)
    /\ hint_key \in RootHints
    /\ cfg = DefaultCfg /\ tzname = <<"U", "T", "C">> /\ day_shift = 0
    /\ root = JNone /\ report = NoReport /\ posted = NotPosted
    /\ IdleSearch /\ IdlePure

\* determine_root called on the list as it is, the empty list included
CallDetermineRoot ==
    /\ pc = "fetched"
    /\ ret' = determine_root(issues, hint_key)
    /\ pc' = "returned"
    /\ UNCHANGED <<issues, arg_key>> /\ UNCHANGED mainVars /\ UNCHANGED searchVars

RootNext == CallDetermineRoot \/ EmptyNotice \/ DetermineRoot \/ ReportOrFallback

SpecRoot == RootInit /\ [][RootNext]_vars

HintMatches == Truthy(hint_key) /\ \E i \in 1..Len(issues) : issue_key(issues[i]) = hint_key.s

Parentless(i) == parent_key(issues[i]) = <<>>

\* C2: with a non-empty hint key that is the key of a record of the list,
\* determine_root returns a record of the list with that key (the record so
\* keyed), whatever the parent references are.
C2_HintWins ==
    /\ (pc = "returned" /\ HintMatches) =>
          /\ \E i \in 1..Len(issues) : issues[i] = ret
          /\ issue_key(ret) = hint_key.s
          /\ \A i \in 1..Len(issues) :
                (issue_key(issues[i]) = hint_key.s /\ \A j \in 1..Len(issues) : j # i => issue_key(issues[j]) # hint_key.s)
                    => ret = issues[i]
    /\ (pc = "rooted" /\ HintMatches) => issue_key(root) = hint_key.s

\* The hinted record has a parent and stands after a parentless record, and
\* it is the one returned.
C2_Witness ==
    /\ pc = "returned"
    /\ Len(issues) = 3
    /\ hint_key = JStr(<<"P", "M", "O", "-", "3">>)
    /\ Parentless(1) /\ issue_key(issues[1]) = <<"P", "M", "O", "-", "1">>
    /\ issue_key(issues[2]) = <<"P", "M", "O", "-", "2">>
    /\ ~Parentless(3) /\ issue_key(issues[3]) = <<"P", "M", "O", "-", "3">>
    /\ ret = issues[3]

\* C3: without a matching hint determine_root returns the first parentless
\* record in input order, or the first record when every record has a
\* parent; it returns None only for the empty list, so main never takes the
\* no-root fallback for a non-empty list.
C3_StructuralRoot ==
    /\ (pc = "returned" /\ ~HintMatches) =>
          /\ \A i \in 1..Len(issues) :
                (Parentless(i) /\ \A j \in 1..(i - 1) : ~Parentless(j)) => ret = issues[i]
          /\ (issues # <<>> /\ \A i \in 1..Len(issues) : ~Parentless(i)) => ret = issues[1]
    /\ pc = "returned" => (ret = JNone <=> issues = <<>>)
    /\ pc = "rooted" => root # JNone
    /\ (pc \in {"done", "raised"} /\ issues # <<>>) => posted.kind # "no-root"

\* Every record has a parent, no hint is given, and main posted the report
\* rooted at the first record.
C3_Witness ==
    /\ pc = "done"
    /\ Len(issues) = 2
    /\ hint_key = JNone
    /\ \A i \in 1..Len(issues) : ~Parentless(i)
    /\ root = issues[1]
    /\ posted.kind = "report"

-----------------------------------------------------------------------------
(* build_report: records that differ in type, status and field values *)

MaxReportIssues == 3

NameObj(n) == JDict(<<"n", "a", "m", "e">> :> JStr(n))

ParentRef == <<"p", "a", "r", "e", "n", "t">> :> JDict(<<"k", "e", "y">> :> JStr(<<"P", "M", "O", "-", "1">>))

\* A record with a key, a type, a status, and further fields
Rec(key, type, status, more) ==
    Issue(JStr(key), JDict((<<"i", "s", "s", "u", "e", "t", "y", "p", "e">> :> NameObj(type)) @@ (<<"s", "t", "a", "t", "u", "s">> :> NameObj(status)) @@ more))

\* An initiative and a keyless record that can be roots, five projects
\* (open with an update, open with an empty update, closed, open with a list
\* valued update, open but typed "project"), two milestones, two risks and a
\* record whose summary makes field_text raise.
ReportPool ==
    { Rec(<<"P", "M", "O", "-", "1">>, <<"P", "M", "O", " ", "I", "n", "i", "t", "i", "a", "t", "i", "v", "e">>, <<"I", "n", " ", "P", "r", "o", "g", "r", "e", "s", "s">>, <<"s", "u", "m", "m", "a", "r", "y">> :> JStr(<<"P", "l", "a", "n", " ", EmDash>>)),
      Issue(JNone, JDict((<<"i", "s", "s", "u", "e", "t", "y", "p", "e">> :> NameObj(<<"p", "m", "o", " ", "i", "n", "i", "t", "i", "a", "t", "i", "v", "e", " ">>)) @@ (<<"s", "t", "a", "t", "u", "s">> :> JDict(NoMembers))
                         @@ (<<"s", "u", "m", "m", "a", "r", "y">> :> JStr(<<"O", "r", "p", "h", "a", "n">>)))),
      Rec(<<"P", "R", "J", "-", "1">>, <<"P", "r", "o", "j", "e", "c", "t">>, <<"O", "p", "e", "n">>,
          (<<"s", "u", "m", "m", "a", "r", "y">> :> JStr(<<"B", "u", "i", "l", "d">>)) @@ ParentRef @@ (<<"c", "u", "s", "t", "o", "m", "f", "i", "e", "l", "d", "_", "w", "e", "e", "k", "l", "y", "_", "u", "p", "d", "a", "t", "e">> :> JStr(<<"O", "n", " ", "t", "r", "a", "c", "k">>))),
      Rec(<<"P", "R", "J", "-", "2">>, <<"P", "r", "o", "j", "e", "c", "t">>, <<"T", "o", " ", "D", "o">>,
          (<<"s", "u", "m", "m", "a", "r", "y">> :> JStr(<<"T", "e", "s", "t">>)) @@ ParentRef @@ (<<"c", "u", "s", "t", "o", "m", "f", "i", "e", "l", "d", "_", "w", "e", "e", "k", "l", "y", "_", "u", "p", "d", "a", "t", "e">> :> JStr(<<>>))),
      Rec(<<"P", "R", "J", "-", "3">>, <<"P", "r", "o", "j", "e", "c", "t">>, <<"D", "o", "n", "e">>,
          (<<"s", "u", "m", "m", "a", "r", "y">> :> JStr(<<"S", "h", "i", "p">>)) @@ ParentRef @@ (<<"c", "u", "s", "t", "o", "m", "f", "i", "e", "l", "d", "_", "w", "e", "e", "k", "l", "y", "_", "u", "p", "d", "a", "t", "e">> :> JStr(<<"L", "a", "t", "e">>))),
      Rec(<<"P", "R", "J", "-", "4">>, <<"p", "r", "o", "j", "e", "c", "t">>, <<"O", "p", "e", "n">>, <<"c", "u", "s", "t", "o", "m", "f", "i", "e", "l", "d", "_", "w", "e", "e", "k", "l", "y", "_", "u", "p", "d", "a", "t", "e">> :> JStr(<<"B", "l", "o", "c", "k", "e", "d", " ", "o", "n", " ", "v", "e", "n", "d", "o", "r">>)),
      Rec(<<"P", "R", "J", "-", "5">>, <<"P", "r", "o", "j", "e", "c", "t">>, <<"I", "n", " ", "R", "e", "v", "i", "e", "w">>,
          (<<"s", "u", "m", "m", "a", "r", "y">> :> JStr(<<"P", "i", "l", "o", "t">>)) @@ ParentRef
          @@ (<<"c", "u", "s", "t", "o", "m", "f", "i", "e", "l", "d", "_", "w", "e", "e", "k", "l", "y", "_", "u", "p", "d", "a", "t", "e">> :> JList(<<JDict(<<"v", "a", "l", "u", "e">> :> JStr(<<"S", "l", "o", "w">>)), JStr(<<"h", "i", "r", "i", "n", "g">>)>>))),
      Rec(<<"M", "S", "-", "1">>, <<"M", "i", "l", "e", "s", "t", "o", "n", "e">>, <<"T", "o", " ", "D", "o">>,
          (<<"s", "u", "m", "m", "a", "r", "y">> :> JStr(<<"B", "e", "t", "a">>)) @@ ParentRef @@ (<<"d", "u", "e", "d", "a", "t", "e">> :> JStr(<<"2", "0", "2", "4", "-", "0", "5", "-", "0", "1", "T", "2", "3", ":", "3", "0", ":", "0", "0", "Z">>))
          @@ (<<"c", "u", "s", "t", "o", "m", "f", "i", "e", "l", "d", "_", "r", "a", "g">> :> JDict(<<"v", "a", "l", "u", "e">> :> JStr(<<"A", "m", "b", "e", "r">>)))),
      Rec(<<"M", "S", "-", "2">>, <<"M", "i", "l", "e", "s", "t", "o", "n", "e">>, <<" ", "C", "l", "o", "s", "e", "d">>,
          (<<"s", "u", "m", "m", "a", "r", "y">> :> JStr(<<"G", "A">>)) @@ ParentRef @@ (<<"d", "u", "e", "d", "a", "t", "e">> :> JStr(<<"2", "0", "2", "4", "-", "1", "3", "-", "9", "9">>))),
      Rec(<<"R", "S", "K", "-", "1">>, <<"I", "n", "i", "t", "i", "a", "t", "i", "v", "e", "R", "i", "s", "k">>, <<"O", "p", "e", "n">>,
          (<<"s", "u", "m", "m", "a", "r", "y">> :> JStr(<<"V", "e", "n", "d", "o", "r">>)) @@ ParentRef @@ (<<"c", "u", "s", "t", "o", "m", "f", "i", "e", "l", "d", "_", "r", "i", "s", "k", "s", "c", "o", "r", "e">> :> JNum(12))
          @@ (<<"a", "s", "s", "i", "g", "n", "e", "e">> :> JDict(<<"d", "i", "s", "p", "l", "a", "y", "N", "a", "m", "e">> :> JStr(<<"A", "n", "n">>)))),
      Rec(<<"R", "S", "K", "-", "2">>, <<"I", "n", "i", "t", "i", "a", "t", "i", "v", "e", "R", "i", "s", "k">>, <<"E", "s", "c", "a", "l", "a", "t", "e", "d">>, (<<"s", "u", "m", "m", "a", "r", "y">> :> JStr(<<"B", "u", "d", "g", "e", "t">>)) @@ ParentRef),
      Rec(<<"B", "A", "D", "-", "1">>, <<"I", "s", "s", "u", "e">>, <<"O", "p", "e", "n">>, (<<"s", "u", "m", "m", "a", "r", "y">> :> JList(<<JDict(<<"n", "a", "m", "e">> :> JNum(5))>>)) @@ ParentRef) }

\* ROOT_ISSUE_KEY and TIMEZONE: neither set (no hint, no conversion), or the
\* hint PRJ-1 with TIMEZONE=UTC on a host where the conversion moves the date
\* to the next day.
Environments ==
    { [hint |-> JNone, tz |-> <<>>, shift |-> 0],
      [hint |-> JStr(<<"P", "R", "J", "-", "1">>), tz |-> <<"U", "T", "C">>, shift |-> 1] }

Init ==
    /\ pc = "fetched"
    /\ issues \in ListsOver(ReportPool, MaxReportIssues)
    /\ \E e \in Environments : hint_key = e.hint /\ tzname = e.tz /\ day_shift = e.shift
    /\ cfg = DefaultCfg
    /\ root = JNone /\ report = NoReport /\ posted = NotPosted
    /\ IdleSearch /\ IdlePure

Spec == Init /\ [][Next]_vars

-----------------------------------------------------------------------------
(* Reading the posted text back *)

\* The k-th smallest element of a finite set of integers
Kth(S, k) == CHOOSE x \in S : Cardinality({y \in S : y < x}) = k - 1

\* The elements of seq at the indices in I, in order
Picked(seq, I) == [k \in 1..Cardinality(I) |-> seq[Kth(I, k)]]

\* The pieces of text between the consecutive positions of the sequence cs
PiecesBetween(text, cs) == [k \in 1..(Len(cs) - 1) |-> SubSeq(text, cs[k] + 1, cs[k + 1] - 1)]

\* The elements of a finite set of integers, ascending
Ascending(S) == [k \in 1..Cardinality(S) |-> Kth(S, k)]

\* text.split("\n")
SplitLines(text) ==
    PiecesBetween(text, Ascending({0} \cup {i \in 1..Len(text) : text[i] = "\n"} \cup {Len(text) + 1}))

Headers == <<<<"W", "e", "e", "k", "l", "y", " ", "u", "p", "d", "a", "t", "e", "s", ":">>, <<"U", "p", "c", "o", "m", "i", "n", "g", " ", "M", "i", "l", "e", "s", "t", "o", "n", "e", "s", ":">>, <<"R", "i", "s", "k", "s", ":">>, <<"A", "s", "s", "u", "m", "p", "t", "i", "o", "n", "s", ":">>, <<"I", "s", "s", "u", "e", "s", ":">>, <<"D", "e", "c", "i", "s", "i", "o", "n", "s", ":">>, <<"C", "h", "a", "n", "g", "e", " ", "r", "e", "q", "u", "e", "s", "t", "s", ":">>>>

HeaderSet == {Headers[i] : i \in 1..Len(Headers)}

\* The lines after header h, up to the next empty line
BodyIn(lines, h) ==
    LET at   == SetMin({i \in 1..Len(lines) : lines[i] = h})
        stop == SetMin({j \in (at + 1)..Len(lines) : lines[j] = <<>>})
    IN  SubSeq(lines, at + 1, stop - 1)

\* The section of the text under header h
SectionBody(text, h) == BodyIn(SplitLines(text), h)

IsPrefix(p, s) == Len(p) <= Len(s) /\ SubSeq(s, 1, Len(p)) = p

Reported == pc = "done" /\ posted.kind = "report"

RootKey == issue_key(root)

RootSummary == FT(root, <<"s", "u", "m", "m", "a", "r", "y">>)

\* The indices of the open records whose type is the configured name itself
OpenOfType(type_name) ==
    {i \in 1..Len(issues) : issue_type(issues[i]) = type_name /\ is_open(issues[i])}

\* The indices of the open records whose type is the configured name up to
\* letter case
OpenOfTypeAnyCase(type_name) ==
    {i \in 1..Len(issues) : lower(issue_type(issues[i])) = lower(type_name) /\ is_open(issues[i])}

\* Section h has a bullet for record i: a line that starts "- {key} [em dash] "
Listed(h, i) ==
    \E n \in 1..Len(SectionBody(posted.text, h)) :
        IsPrefix(<<"-", " ">> \o issue_key(issues[i]) \o <<" ", EmDash, " ">>, SectionBody(posted.text, h)[n])

\* C4: section classification compares types case-insensitively: an open
\* record whose type differs from the configured milestone, project or RAID
\* type name only in letter case is listed in its section.  (For a project
\* this is the Weekly updates section of an initiative-rooted report, when
\* the record has an update.)
C4_CaseInsensitiveSections ==
    Reported =>
        /\ \A i \in OpenOfTypeAnyCase(cfg.MILESTONE_TYPE_NAME) : Listed(<<"U", "p", "c", "o", "m", "i", "n", "g", " ", "M", "i", "l", "e", "s", "t", "o", "n", "e", "s", ":">>, i)
        /\ \A i \in OpenOfTypeAnyCase(cfg.INITIATIVE_RISK_TYPE_NAME) : Listed(<<"R", "i", "s", "k", "s", ":">>, i)
        /\ \A i \in OpenOfTypeAnyCase(cfg.ASSUMPTION_TYPE_NAME) : Listed(<<"A", "s", "s", "u", "m", "p", "t", "i", "o", "n", "s", ":">>, i)
        /\ \A i \in OpenOfTypeAnyCase(cfg.ISSUE_TYPE_NAME) : Listed(<<"I", "s", "s", "u", "e", "s", ":">>, i)
        /\ \A i \in OpenOfTypeAnyCase(cfg.DECISION_TYPE_NAME) : Listed(<<"D", "e", "c", "i", "s", "i", "o", "n", "s", ":">>, i)
        /\ \A i \in OpenOfTypeAnyCase(cfg.CHANGE_REQ_TYPE_NAME) : Listed(<<"C", "h", "a", "n", "g", "e", " ", "r", "e", "q", "u", "e", "s", "t", "s", ":">>, i)
        /\ IsInitiativeRoot(root, cfg) =>
              \A i \in OpenOfTypeAnyCase(cfg.PROJECT_TYPE_NAME) :
                  FT(issues[i], cfg.WEEKLY_UPDATE_FIELD) # <<>> =>
                      \E n \in 1..Len(SectionBody(posted.text, <<"W", "e", "e", "k", "l", "y", " ", "u", "p", "d", "a", "t", "e", "s", ":">>)) :
                          IsPrefix(<<"-", " ", "*", "*">> \o issue_key(issues[i]) \o <<" ", EmDash, " ">>, SectionBody(posted.text, <<"W", "e", "e", "k", "l", "y", " ", "u", "p", "d", "a", "t", "e", "s", ":">>)[n])

\* The bullet the Weekly updates section owes project i
WeeklyBulletOwed(i) ==
    <<"-", " ", "*", "*">> \o issue_key(issues[i]) \o <<" ", EmDash, " ">> \o FT(issues[i], <<"s", "u", "m", "m", "a", "r", "y">>) \o <<"*", "*", ":", " ">> \o FT(issues[i], cfg.WEEKLY_UPDATE_FIELD)

Qualifying == {i \in OpenOfType(cfg.PROJECT_TYPE_NAME) : FT(issues[i], cfg.WEEKLY_UPDATE_FIELD) # <<>>}

\* C6: with a root whose type is the initiative type up to letter case, the
\* Weekly updates section holds exactly the bullets "- **{key} [em dash]
\* {summary}**: {update}" of the open records of the project type with a
\* non-empty update, in input order, or the single line "- None".
C6_WeeklyOfInitiative ==
    (Reported /\ IsInitiativeRoot(root, cfg)) =>
        SectionBody(posted.text, <<"W", "e", "e", "k", "l", "y", " ", "u", "p", "d", "a", "t", "e", "s", ":">>) =
            IF Qualifying = {} THEN <<<<"-", " ", "N", "o", "n", "e">>>>
            ELSE [k \in 1..Cardinality(Qualifying) |-> WeeklyBulletOwed(Kth(Qualifying, k))]

\* Scenario A and more: an initiative root, then an open project with the
\* update "On track", an open project with an empty update between, and a
\* second open project with an update: two bullets, in input order.
C6_Witness ==
    /\ Reported
    /\ Len(issues) = 3
    /\ issue_key(root) = <<"P", "M", "O", "-", "1">>
    /\ issue_key(issues[1]) = <<"P", "R", "J", "-", "5">> /\ issue_key(issues[2]) = <<"P", "M", "O", "-", "1">> /\ issue_key(issues[3]) = <<"P", "R", "J", "-", "1">>
    /\ SectionBody(posted.text, <<"W", "e", "e", "k", "l", "y", " ", "u", "p", "d", "a", "t", "e", "s", ":">>) =
          <<<<"-", " ", "*", "*", "P", "R", "J", "-", "5", " ", EmDash, " ", "P", "i", "l", "o", "t", "*", "*", ":", " ", "S", "l", "o", "w", ",", " ", "h", "i", "r", "i", "n", "g">>, <<"-", " ", "*", "*", "P", "R", "J", "-", "1", " ", EmDash, " ", "B", "u", "i", "l", "d", "*", "*", ":", " ", "O", "n", " ", "t", "r", "a", "c", "k">>>>

\* body is the milestone section owed to the records at the indices open.
MilestonesOwed(body, open) ==
    IF open = {} THEN body = <<<<"N", "o", "n", "e">>>>
    ELSE /\ Len(body) = Cardinality(open)
         /\ \A k \in 1..Len(body) :
               IsPrefix(<<"-", " ">> \o issue_key(issues[Kth(open, k)]) \o <<" ", EmDash, " ">>
                           \o FT(issues[Kth(open, k)], <<"s", "u", "m", "m", "a", "r", "y">>) \o <<" ", "|", " ", "T", "a", "r", "g", "e", "t", " ", "e", "n", "d", ":", " ">>, body[k])

\* C7: the Upcoming Milestones section lists only the open records of the
\* milestone type, one bullet each; with none of them it is the single line
\* "None".
C7_OpenMilestonesOnly ==
    Reported => MilestonesOwed(SectionBody(posted.text, <<"U", "p", "c", "o", "m", "i", "n", "g", " ", "M", "i", "l", "e", "s", "t", "o", "n", "e", "s", ":">>), OpenOfType(cfg.MILESTONE_TYPE_NAME))

\* Scenario C: the milestone group exists and all of it is closed.
C7_Witness ==
    /\ Reported
    /\ \E i \in 1..Len(issues) : issue_key(issues[i]) = <<"M", "S", "-", "2">>
    /\ \A i \in 1..Len(issues) : issue_key(issues[i]) \in {<<"M", "S", "-", "2">>, <<"P", "M", "O", "-", "1">>}
    /\ SectionBody(posted.text, <<"U", "p", "c", "o", "m", "i", "n", "g", " ", "M", "i", "l", "e", "s", "t", "o", "n", "e", "s", ":">>) = <<<<"N", "o", "n", "e">>>>

\* An open and a closed milestone: one bullet.
C7_WitnessOpen ==
    /\ Reported
    /\ \E i, j \in 1..Len(issues) : issue_key(issues[i]) = <<"M", "S", "-", "2">> /\ issue_key(issues[j]) = <<"M", "S", "-", "1">>
    /\ Len(SectionBody(posted.text, <<"U", "p", "c", "o", "m", "i", "n", "g", " ", "M", "i", "l", "e", "s", "t", "o", "n", "e", "s", ":">>)) = 1

\* The lines that are headers, in the order they stand
HeaderLines(lines) == Picked(lines, {i \in 1..Len(lines) : lines[i] \in HeaderSet})

\* The lines from "Risks:" on
RaidPart(lines) == SubSeq(lines, SetMin({i \in 1..Len(lines) : lines[i] = <<"R", "i", "s", "k", "s", ":">>}), Len(lines))

\* body is the RAID section owed to the records at the indices open.
RowsOwed(body, open) ==
    IF open = {} THEN body = <<<<"N", "o", "n", "e">>>>
    ELSE /\ Len(body) = Cardinality(open)
         /\ \A k \in 1..Len(body) :
               IsPrefix(<<"-", " ">> \o issue_key(issues[Kth(open, k)]) \o <<" ", EmDash, " ">>
                           \o FT(issues[Kth(open, k)], <<"s", "u", "m", "m", "a", "r", "y">>) \o <<" ", "|", " ", "S", "t", "a", "t", "u", "s", ":", " ">>
                           \o issue_status_name(issues[Kth(open, k)]), body[k])

SectionsFixedIn(lines) ==
    /\ HeaderLines(lines) = Headers
    /\ RowsOwed(BodyIn(lines, <<"R", "i", "s", "k", "s", ":">>), OpenOfType(cfg.INITIATIVE_RISK_TYPE_NAME))
    /\ RowsOwed(BodyIn(lines, <<"A", "s", "s", "u", "m", "p", "t", "i", "o", "n", "s", ":">>), OpenOfType(cfg.ASSUMPTION_TYPE_NAME))
    /\ RowsOwed(BodyIn(lines, <<"I", "s", "s", "u", "e", "s", ":">>), OpenOfType(cfg.ISSUE_TYPE_NAME))
    /\ RowsOwed(BodyIn(lines, <<"D", "e", "c", "i", "s", "i", "o", "n", "s", ":">>), OpenOfType(cfg.DECISION_TYPE_NAME))
    /\ RowsOwed(BodyIn(lines, <<"C", "h", "a", "n", "g", "e", " ", "r", "e", "q", "u", "e", "s", "t", "s", ":">>), OpenOfType(cfg.CHANGE_REQ_TYPE_NAME))
    /\ \A i \in 1..Len(issues) : RaidPart(lines) = raid_lines(issues, issues[i], cfg)

\* C8: the text holds the seven headers once each and in the fixed order;
\* each RAID section holds one bullet per open record of its type in input
\* order, or "None"; and the RAID sections are the lines the same list
\* gives under any other root, initiative-typed or not.
C8_SectionsFixed == Reported => SectionsFixedIn(SplitLines(posted.text))

\* A root typed "project", an initiative later in the list, and the open
\* risk listed with its status, score and assignee.
C8_Witness ==
    /\ Reported
    /\ Len(issues) = 3
    /\ ~IsInitiativeRoot(root, cfg)
    /\ issue_key(root) = <<"P", "R", "J", "-", "4">>
    /\ issue_key(issues[3]) = <<"P", "M", "O", "-", "1">> /\ IsInitiativeRoot(issues[3], cfg)
    /\ SectionBody(posted.text, <<"R", "i", "s", "k", "s", ":">>) =
          <<<<"-", " ", "R", "S", "K", "-", "1", " ", EmDash, " ", "V", "e", "n", "d", "o", "r", " ", "|", " ", "S", "t", "a", "t", "u", "s", ":", " ", "O", "p", "e", "n", " ", "|", " ", "A", "r", "i", "s", "t", "o", "c", "r", "a", "t", " ", "r", "i", "s", "k", " ", "s", "c", "o", "r", "e", ":", " ", "1", "2", " ", "|", " ", "A", "s", "s", "i", "g", "n", "e", "e", ":", " ", "A", "n", "n">>>>

\* Two open risks are listed in input order.
C8_WitnessOrder ==
    /\ Reported
    /\ SectionBody(posted.text, <<"R", "i", "s", "k", "s", ":">>) =
          <<<<"-", " ", "R", "S", "K", "-", "2", " ", EmDash, " ", "B", "u", "d", "g", "e", "t", " ", "|", " ", "S", "t", "a", "t", "u", "s", ":", " ", "E", "s", "c", "a", "l", "a", "t", "e", "d">>, <<"-", " ", "R", "S", "K", "-", "1", " ", EmDash, " ", "V", "e", "n", "d", "o", "r", " ", "|", " ", "S", "t", "a", "t", "u", "s", ":", " ", "O", "p", "e", "n", " ", "|", " ", "A", "r", "i", "s", "t", "o", "c", "r", "a", "t", " ", "r", "i", "s", "k", " ", "s", "c", "o", "r", "e", ":", " ", "1", "2", " ", "|", " ", "A", "s", "s", "i", "g", "n", "e", "e", ":", " ", "A", "n", "n">>>>

\* C9: the title is "{key} [em dash] {summary}" when both are non-empty; the
\* separator is trimmed only when a side is empty, and no character of the
\* key or of the summary is removed.
C9_TitleKeepsBothSides ==
    Reported =>
        /\ (RootKey # <<>> /\ RootSummary # <<>>) => report.title = RootKey \o <<" ", EmDash, " ">> \o RootSummary
        /\ (RootKey = <<>>) => report.title = RootSummary
        /\ (RootKey # <<>> /\ RootSummary = <<>>) => report.title = RootKey

-----------------------------------------------------------------------------
(* field_text on one field value of every shape *)

MaxListLen == 2

\* What a member of a structured value, or a non-structured list element,
\* can hold: a str, the empty str, a number, null
ScalarValues == {JStr(<<"A", "n", "n">>), JStr(<<>>), JNum(5), JNum(0), JNone}

MemberNames == {<<"d", "i", "s", "p", "l", "a", "y", "N", "a", "m", "e">>, <<"n", "a", "m", "e">>, <<"v", "a", "l", "u", "e">>, <<"i", "d">>, <<"k", "e", "y">>}

\* Structured objects with no, one or two of the members field_text reads
DictValues ==
    {JDict(NoMembers)}
    \cup {JDict(m :> x) : m \in MemberNames, x \in ScalarValues}
    \cup {JDict((m :> x) @@ (n :> y)) : m \in MemberNames, n \in MemberNames \ {<<"d", "i", "s", "p", "l", "a", "y", "N", "a", "m", "e">>, <<"k", "e", "y">>}, x \in {JStr(<<"A", "n", "n">>), JNone}, y \in {JStr(<<"B", "o">>), JNum(5)}}

\* Elements of a sequence: structured and non-structured
ElementValues ==
    {JStr(<<"r", "e", "d">>), JStr(<<>>), JNum(3), JNone, JDict(NoMembers),
     JDict(<<"n", "a", "m", "e">> :> JStr(<<"b", "l", "u", "e">>)), JDict(<<"k", "e", "y">> :> JStr(<<"K", "-", "1">>)), JDict(<<"v", "a", "l", "u", "e">> :> JNum(5)),
     JDict((<<"n", "a", "m", "e">> :> JStr(<<>>)) @@ (<<"d", "i", "s", "p", "l", "a", "y", "N", "a", "m", "e">> :> JStr(<<"C", "y">>)))}

FieldValues ==
    {JStr(<<"O", "n", " ", "t", "r", "a", "c", "k">>), JStr(<<>>), JNum(12), JNum(0)}
    \cup DictValues
    \cup {JList(l) : l \in ListsOver(ElementValues, MaxListLen)}

\* The names field_text is asked for: as stored, in another case, not stored
AskedNames == {<<"a", "s", "s", "i", "g", "n", "e", "e">>, <<"A", "s", "s", "i", "g", "n", "e", "e">>, <<"l", "a", "b", "e", "l", "s">>}

FieldInit ==
    /\ pc = "call"
    /\ \E v \in FieldValues \cup {JNone} :
          issues = <<Issue(JStr(<<"P", "M", "O", "-", "1">>), JDict(IF v = JNone THEN NoMembers ELSE <<"a", "s", "s", "i", "g", "n", "e", "e">> :> v))>>
    /\ arg_key \in AskedNames
    /\ ret = Unused
    /\ IdleMain /\ IdleSearch

FieldText ==
    /\ pc = "call"
    /\ ret' = field_text(issues[1], arg_key)
    /\ pc' = "returned"
    /\ UNCHANGED <<issues, arg_key>> /\ UNCHANGED mainVars /\ UNCHANGED searchVars

FieldNext == FieldText

SpecField == FieldInit /\ [][FieldNext]_vars

\* C5: field_text is total: for every record, field name and shape of the
\* field value it returns a str and never raises; an absent field gives "".
C5_FieldTextTotal ==
    pc = "returned" =>
        /\ ~ret.raised
        /\ ret.val.t = "str"
        /\ field(issues[1], arg_key) = JNone => ret.val = JStr(<<>>)

-----------------------------------------------------------------------------
(* jira_search: the pagination loop *)

MaxMaxIssues == 3

MaxBatchSize == 2

\* How many records more than maxResults a response may hold
MaxExcess == 1

\* The records the server hands out
ServerRecords == {"r1", "r2"}

SearchInit ==
    /\ pc = "loop"
    /\ max_issues \in 0..MaxMaxIssues
    /\ batch_size \in 0..MaxBatchSize
    /\ out = <<>> /\ start_at = 0 /\ asked = 0
    /\ received = <<>> /\ over_run = FALSE
    /\ issues = <<>>
    /\ IdleMain /\ IdlePure

Min(a, b) == IF a <= b THEN a ELSE b

\* while len(out) < max_issues: build the payload and post it (lines 65-67)
SendRequest ==
    /\ pc = "loop"
    /\ Len(out) < max_issues
    /\ asked' = Min(batch_size, max_issues - Len(out))
    /\ pc' = "wait"
    /\ UNCHANGED <<max_issues, batch_size, out, start_at, received, over_run, issues, arg_key, ret>>
    /\ UNCHANGED mainVars

\* the while condition is false: return out (line 75)
ReturnFull ==
    /\ pc = "loop"
    /\ Len(out) >= max_issues
    /\ pc' = "done"
    /\ UNCHANGED <<issues, arg_key, ret>> /\ UNCHANGED searchVars /\ UNCHANGED mainVars

\* Faulty variant: startAt advances by the size asked for, not by the size received.
NextStartAt_by_asked(s, n, batch) == s + n

\* start_at += len(batch) (line 74)
NextStartAt(s, n, batch) == s + Len(batch)

\* a 200 response with any batch: extend out, break on an empty batch, else
\* advance start_at (lines 70-74)
Respond200 ==
    /\ pc = "wait"
    /\ \E batch \in ListsOver(ServerRecords, asked + MaxExcess) :
          /\ out' = out \o batch
          /\ received' = Append(received, batch)
          /\ over_run' = (over_run \/ Len(batch) > asked)
          /\ IF batch = <<>>
             THEN pc' = "done" /\ start_at' = start_at
             ELSE pc' = "loop" /\ start_at' = NextStartAt(start_at, asked, batch)
    /\ UNCHANGED <<max_issues, batch_size, asked, issues, arg_key, ret>>
    /\ UNCHANGED mainVars

\* any other status: RuntimeError (lines 68-69)
RespondError ==
    /\ pc = "wait"
    /\ pc' = "raised"
    /\ UNCHANGED <<issues, arg_key, ret>> /\ UNCHANGED searchVars /\ UNCHANGED mainVars

SearchNext == SendRequest \/ ReturnFull \/ Respond200 \/ RespondError

\* The loop is sequential code and requests.post returns (timeout=60) or
\* raises: a step that can be taken is taken.
SpecSearch == SearchInit /\ [][SearchNext]_vars /\ WF_vars(SearchNext)

RECURSIVE Flatten(_)
Flatten(batches) == IF batches = <<>> THEN <<>> ELSE Head(batches) \o Flatten(Tail(batches))

SearchInvariant ==
    /\ start_at = Len(out)
    /\ out = Flatten(received)
    /\ pc \in {"loop", "wait"} => \A i \in 1..Len(received) : received[i] # <<>>
    /\ pc = "wait" => Len(out) < max_issues
    /\ pc = "done" =>
          /\ \A i \in 1..(Len(received) - 1) : received[i] # <<>>
          /\ \A i \in 1..(Len(received) - 1) : Len(Flatten(SubSeq(received, 1, i))) < max_issues
          /\ \/ (received # <<>> /\ received[Len(received)] = <<>>)
             \/ Len(out) >= max_issues
    /\ ~over_run => Len(out) <= max_issues

\* C10: under 200 responses the loop of jira_search terminates; it stops at
\* the first empty batch or as soon as max_issues records are collected,
\* start_at is always the number of records collected, the records keep
\* the order of the batches, and when no batch is longer than the maxResults
\* asked the result holds at most max_issues records.
C10_PaginationTerminates == []SearchInvariant /\ <>(pc \in {"done", "raised"})

\* Three batches of different sizes, the second shorter than asked, made up
\* a result of max_issues records.
C10_Witness ==
    /\ pc = "done"
    /\ max_issues = 3 /\ batch_size = 2
    /\ received = <<<<"r1", "r2">>, <<"r2">>>>
    /\ out = <<"r1", "r2", "r2">>
    /\ ~over_run

=============================================================================
